---- MODULE Spec2Model ----
(***************************************************************************)
(* Model of qualys_agent_duplicate_removal.py: a batch job that pages      *)
(* through the asset-search endpoint (fetch_cloud_agents), selects the     *)
(* duplicate agents to drop (find_duplicate_agents) and uninstalls them    *)
(* one by one (remove_cloud_agents), driven by main.                       *)
(*                                                                         *)
(* The remote API is the environment: what a search page holds, whether a  *)
(* request fails, and what an uninstall call answers are chosen with \E.   *)
(* The remote assigns every asset its own id (spec section 3: identity is  *)
(* the id field as assigned by the remote system), so the k-th asset       *)
(* served carries id k.                                                    *)
(***************************************************************************)
EXTENDS Integers, Sequences, FiniteSets, TLC

VARIABLES
    pc,             \* position of main: "fetch", "convert", "select", "remove", "done"
    offset,         \* fetch_cloud_agents: startFromOffset of the next search request
    agents_data,    \* the DataFrame accumulated by fetch_cloud_agents / held by main
    requests,       \* offsets of the search requests issued so far, in order
    received,       \* the entries of the pages received and read so far, in order
    flags,          \* hasMoreRecords text of each page received, in order
    fetch_failure,  \* "none", "transport" or "parse": how the fetch loop was cut
    dry_run,        \* args.dry_run
    to_remove,      \* the DataFrame returned by find_duplicate_agents
    i,              \* remove_cloud_agents: position of the next row of to_remove
    uninstalls,     \* agent ids of the uninstall requests issued so far, in order
    sleeps,         \* number of time.sleep(API_REQUEST_DELAY) calls made
    response,       \* responseCode and count read from the latest uninstall answer
    log             \* the lines written by log_debug, in order

vars == <<pc, offset, agents_data, requests, received, flags, fetch_failure, dry_run,
          to_remove, i, uninstalls, sleeps, response, log>>

---------------------------------------------------------------------------
(* Bounds of the model. *)

\* Most search requests one run issues.
MaxPages == 2

\* Most records the remote serves in one run.
MaxRecords == 3

\* Most entries of one page of search results.
MaxPageLen == 2

\* Most rows of an inventory handed directly to find_duplicate_agents.
MaxInv == 3

(* Program constants. *)

\* <limitResults>1000</limitResults>, and the step of the offset.
PageSize == 1000

\* offset = 1
FirstOffset == 1

\* pd.NaT, what to_datetime(errors="coerce") makes of an unparseable text.
NaT == -1

---------------------------------------------------------------------------
(* Values on the wire. *)

WireNames == {"Host-A", "host-a", "host-b"}
WireAddresses == {"10.0.0.1"}
WireCreated == {"2024-01-01T01:00:00+01:00"}
WireModified == {"", "2024-01-02T00:00:00Z"}

\* What a HostAsset element carries besides its id.
WireFields == [name : WireNames, address : WireAddresses,
               created : WireCreated, modified : WireModified]

\* Texts of <hasMoreRecords>; "none" stands for an absent element (findtext gives None).
WireFlags == {"true", "false", "none"}

\* Texts of <responseCode> and <count>; "none" stands for an absent element.
WireCodes == {"SUCCESS", "ERROR", "none"}
WireCounts == {"0", "1", "none"}

NoResponse == [code |-> "none", count |-> "none", read |-> FALSE]

Min(a, b) == IF a <= b THEN a ELSE b

Range(s) == {s[k] : k \in 1..Len(s)}

\* str.lower() on the names the remote can send.
Lower(name) ==
    CASE name = "Host-A" -> "host-a"
      [] name = "host-a" -> "host-a"
      [] name = "host-b" -> "host-b"
      [] name = "" -> ""

\* pd.to_datetime(text, errors="coerce", utc=True).dt.tz_localize(None): the
\* instant in UTC, counted in days from 2023-12-31, or NaT.
ToDatetime(text) ==
    CASE text = "" -> NaT
      [] text = "2024-01-01T00:00:00Z" -> 1
      [] text = "2024-01-01T01:00:00+01:00" -> 1
      [] text = "2024-01-02T00:00:00Z" -> 2
      [] OTHER -> NaT

\* Python's order of the str values of the hostname and address columns.
StrRank(s) ==
    CASE s = "" -> 0
      [] s = "10.0.0.1" -> 1
      [] s = "10.0.0.2" -> 2
      [] s = "host-a" -> 3
      [] s = "host-b" -> 4

\* One row appended to agents_data for an entry; idx is the row's index label
\* (ignore_index=True numbers the rows in order of arrival).
NewRow(entry, idx, id) ==
    [idx |-> idx, id |-> id, hostname |-> Lower(entry.name), address |-> entry.address,
     created |-> entry.created, modified |-> entry.modified]

\* agents_data after the entries of one page were appended.
AppendEntries(data, entries) ==
    data \o [k \in 1..Len(entries) |-> NewRow(entries[k], Len(data) + k, Len(data) + k)]

\* The two to_datetime assignments on the created and modified columns.
ConvertTimestamps(data) ==
    [k \in 1..Len(data) |->
        [data[k] EXCEPT !.created = ToDatetime(@), !.modified = ToDatetime(@)]]

---------------------------------------------------------------------------
(* find_duplicate_agents *)

SameKey(a, b) == a.hostname = b.hostname /\ a.address = b.address

\* agents_data[agents_data.duplicated(["hostname", "address"], keep=False)]
duplicated(data) ==
    SelectSeq(data, LAMBDA r : \E k \in 1..Len(data) :
                                   data[k].idx # r.idx /\ SameKey(data[k], r))

\* Variant of ModifiedPrecedes: the column sorted ascending.
ModifiedPrecedesAscending(a, b) ==
    \/ a.modified # NaT /\ b.modified = NaT
    \/ a.modified # NaT /\ b.modified # NaT /\ a.modified < b.modified

\* Column "modified", ascending=False, NaT last (the default na_position, in
\* either direction): a sorts strictly before b.
ModifiedPrecedes(a, b) ==
    \/ a.modified # NaT /\ b.modified = NaT
    \/ a.modified # NaT /\ b.modified # NaT /\ a.modified > b.modified

\* Variant of CreatedPrecedes: NaT first, as the earliest value.
CreatedPrecedesNaTFirst(a, b) ==
    \/ a.created = NaT /\ b.created # NaT
    \/ a.created # NaT /\ b.created # NaT /\ a.created < b.created

\* Column "created", ascending=True, NaT last: a sorts strictly before b.
CreatedPrecedes(a, b) ==
    \/ a.created # NaT /\ b.created = NaT
    \/ a.created # NaT /\ b.created # NaT /\ a.created < b.created

\* The order of sort_values(["hostname", "address", "modified", "created"],
\* ascending=[True, True, False, True]): a sorts strictly before b.
RowPrecedes(a, b) ==
    \/ StrRank(a.hostname) < StrRank(b.hostname)
    \/ /\ a.hostname = b.hostname
       /\ \/ StrRank(a.address) < StrRank(b.address)
          \/ /\ a.address = b.address
             /\ \/ ModifiedPrecedes(a, b)
                \/ /\ ~ModifiedPrecedes(b, a)
                   /\ CreatedPrecedes(a, b)

\* r placed before the first row of the sorted t that sorts strictly after it.
RECURSIVE InsertRow(_, _)
InsertRow(r, t) ==
    IF t = <<>> THEN <<r>>
    ELSE IF RowPrecedes(r, Head(t)) THEN <<r>> \o t
    ELSE <<Head(t)>> \o InsertRow(r, Tail(t))

\* sort_values: a stable sort, rows that tie on every key keep their order.
RECURSIVE sort_values(_)
sort_values(data) ==
    IF data = <<>> THEN <<>>
    ELSE InsertRow(data[Len(data)], sort_values(SubSeq(data, 1, Len(data) - 1)))

\* drop_duplicates(subset=["hostname", "address"], keep="first")
drop_duplicates(sorted) ==
    LET firstOfKey(k) == \A j \in 1..(k - 1) : ~SameKey(sorted[j], sorted[k])
        keep == {k \in 1..Len(sorted) : firstOfKey(k)}
        RECURSIVE pick(_)
        pick(k) == IF k > Len(sorted) THEN <<>>
                   ELSE (IF k \in keep THEN <<sorted[k]>> ELSE <<>>) \o pick(k + 1)
    IN  pick(1)

\* Variant of NotInLatest: the ~ dropped.
NotInLatestNegationLost(sorted, latest) ==
    SelectSeq(sorted, LAMBDA r : r.idx \in {l.idx : l \in Range(latest)})

\* sorted_duplicates[~sorted_duplicates.index.isin(latest_entries.index)]
NotInLatest(sorted, latest) ==
    SelectSeq(sorted, LAMBDA r : r.idx \notin {l.idx : l \in Range(latest)})

\* Variant of find_duplicate_agents: every row of a duplicate group is returned.
find_duplicate_agents_keep_none(data) == sort_values(duplicated(data))

\* find_duplicate_agents(agents_data), its return value.
find_duplicate_agents(data) ==
    LET duplicates == duplicated(data)
        sorted_duplicates == sort_values(duplicates)
        latest_entries == drop_duplicates(sorted_duplicates)
    IN  NotInLatest(sorted_duplicates, latest_entries)

---------------------------------------------------------------------------
(* Log lines: kind names the message, agent the agent id it is about (0: none). *)

Line(kind, agent) == [kind |-> kind, agent |-> agent]

Init ==
    /\ pc = "fetch"
    /\ offset = FirstOffset
    /\ agents_data = <<>>
    /\ requests = <<>>
    /\ received = <<>>
    /\ flags = <<>>
    /\ fetch_failure = "none"
    /\ dry_run \in BOOLEAN
    /\ to_remove = <<>>
    /\ i = 1
    /\ uninstalls = <<>>
    /\ sleeps = 0
    /\ response = NoResponse
    /\ log = <<Line("fetching", 0)>>

---------------------------------------------------------------------------
(* fetch_cloud_agents: one pass of the while loop per action. *)

\* root.findtext("hasMoreRecords") == "true"
HasMore(flag) == flag = "true"

\* Variant of NextOffset: the offset stepped by one.
NextOffsetByOne(o) == o + 1

\* offset += 1000
NextOffset(o) == o + PageSize

\* The pages the remote may still serve: the entries of one page, at most what
\* is left of MaxRecords.
PageEntries ==
    UNION {[1..n -> WireFields] : n \in 0..Min(MaxPageLen, MaxRecords - Len(agents_data))}

\* The request succeeds and its document is read: the entries are appended, and
\* the loop goes on or breaks on the hasMoreRecords text.
SearchOk ==
    /\ pc = "fetch"
    /\ Len(requests) < MaxPages
    /\ \E entries \in PageEntries, flag \in WireFlags :
        /\ HasMore(flag) => Len(requests) + 1 < MaxPages
        /\ requests' = Append(requests, offset)
        /\ agents_data' = AppendEntries(agents_data, entries)
        /\ received' = received \o entries
        /\ flags' = Append(flags, flag)
        /\ IF HasMore(flag)
             THEN offset' = NextOffset(offset) /\ pc' = "fetch"
             ELSE offset' = offset /\ pc' = "convert"
    /\ UNCHANGED <<fetch_failure, dry_run, to_remove, i, uninstalls, sleeps,
                   response, log>>

\* Variant of SearchTransportError: no break, the loop asks again.
SearchTransportErrorRetries ==
    /\ pc = "fetch"
    /\ Len(requests) < MaxPages
    /\ requests' = Append(requests, offset)
    /\ log' = Append(log, Line("fetch_error", 0))
    /\ fetch_failure' = "transport"
    /\ pc' = "fetch"
    /\ UNCHANGED <<offset, agents_data, received, flags, dry_run, to_remove, i,
                   uninstalls, sleeps, response>>

\* requests.post or raise_for_status raises a RequestException: logged, break.
SearchTransportError ==
    /\ pc = "fetch"
    /\ Len(requests) < MaxPages
    /\ requests' = Append(requests, offset)
    /\ log' = Append(log, Line("fetch_error", 0))
    /\ fetch_failure' = "transport"
    /\ pc' = "convert"
    /\ UNCHANGED <<offset, agents_data, received, flags, dry_run, to_remove, i,
                   uninstalls, sleeps, response>>

\* ET.fromstring raises ParseError, which is no RequestException: it leaves
\* fetch_cloud_agents and is caught by main's except Exception, which logs it;
\* main then ends.
SearchParseError ==
    /\ pc = "fetch"
    /\ Len(requests) < MaxPages
    /\ requests' = Append(requests, offset)
    /\ log' = Append(log, Line("unexpected_error", 0))
    /\ fetch_failure' = "parse"
    /\ pc' = "done"
    /\ UNCHANGED <<offset, agents_data, received, flags, dry_run, to_remove, i,
                   uninstalls, sleeps, response>>

\* After the loop: the timestamp columns are converted and the DataFrame goes
\* back to main, which ends at once when it is empty.
FetchReturn ==
    /\ pc = "convert"
    /\ agents_data' = ConvertTimestamps(agents_data)
    /\ IF agents_data = <<>>
         THEN log' = Append(log, Line("no_agents", 0)) /\ pc' = "done"
         ELSE log' = log /\ pc' = "select"
    /\ UNCHANGED <<offset, requests, received, flags, fetch_failure, dry_run,
                   to_remove, i, uninstalls, sleeps, response>>

---------------------------------------------------------------------------
(* main: duplicates_to_remove = find_duplicate_agents(agents_data), and the   *)
(* branch on its emptiness; remove_cloud_agents logs its first line on entry. *)

FindDuplicates ==
    /\ pc = "select"
    /\ to_remove' = find_duplicate_agents(agents_data)
    /\ LET said == log \o <<Line("identifying", 0),
                            Line("found", Len(duplicated(agents_data))),
                            Line("marked", Len(to_remove'))>>
       IN  IF to_remove' # <<>>
             THEN log' = Append(said, Line("starting_removal", 0)) /\ pc' = "remove"
             ELSE log' = Append(said, Line("no_duplicates", 0)) /\ pc' = "done"
    /\ UNCHANGED <<offset, agents_data, requests, received, flags, fetch_failure,
                   dry_run, i, uninstalls, sleeps, response>>

---------------------------------------------------------------------------
(* remove_cloud_agents: one pass of the for loop per action. *)

\* Variant of IsSuccess: the count not looked at.
IsSuccessCodeOnly(code, count) == code = "SUCCESS"

\* response_code == "SUCCESS" and count != "0"
IsSuccess(code, count) == code = "SUCCESS" /\ count # "0"

\* Variant of RemoveDryRun: no continue, the pass goes on to sleep and post.
RemoveDryRunNoSkip ==
    /\ pc = "remove"
    /\ dry_run
    /\ i <= Len(to_remove)
    /\ log' = Append(log, Line("DRY-RUN", to_remove[i].id))
    /\ sleeps' = sleeps + 1
    /\ uninstalls' = Append(uninstalls, to_remove[i].id)
    /\ i' = i + 1
    /\ UNCHANGED <<pc, offset, agents_data, requests, received, flags, fetch_failure,
                   dry_run, to_remove, response>>

\* dry_run: the line is logged and the loop continues.
RemoveDryRun ==
    /\ pc = "remove"
    /\ dry_run
    /\ i <= Len(to_remove)
    /\ log' = Append(log, Line("DRY-RUN", to_remove[i].id))
    /\ i' = i + 1
    /\ UNCHANGED <<pc, offset, agents_data, requests, received, flags, fetch_failure,
                   dry_run, to_remove, uninstalls, sleeps, response>>

\* Live: sleep, post the uninstall request, read responseCode and count, log
\* the outcome.
RemoveLiveAnswered ==
    /\ pc = "remove"
    /\ ~dry_run
    /\ i <= Len(to_remove)
    /\ \E code \in WireCodes, count \in WireCounts :
        /\ response' = [code |-> code, count |-> count, read |-> TRUE]
        /\ log' = log \o <<Line("ACTION", to_remove[i].id),
                           Line(IF IsSuccess(code, count) THEN "success" ELSE "failed",
                                to_remove[i].id)>>
    /\ sleeps' = sleeps + 1
    /\ uninstalls' = Append(uninstalls, to_remove[i].id)
    /\ i' = i + 1
    /\ UNCHANGED <<pc, offset, agents_data, requests, received, flags, fetch_failure,
                   dry_run, to_remove>>

\* Variant of RemoveLiveRaised: the exception ends the loop.
RemoveLiveRaisedAborts ==
    /\ pc = "remove"
    /\ ~dry_run
    /\ i <= Len(to_remove)
    /\ response' = NoResponse
    /\ log' = log \o <<Line("ACTION", to_remove[i].id), Line("error", to_remove[i].id)>>
    /\ sleeps' = sleeps + 1
    /\ uninstalls' = Append(uninstalls, to_remove[i].id)
    /\ i' = i
    /\ pc' = "done"
    /\ UNCHANGED <<offset, agents_data, requests, received, flags, fetch_failure,
                   dry_run, to_remove>>

\* Live: the request, raise_for_status or ET.fromstring raises; except
\* Exception logs it and the loop goes on.
RemoveLiveRaised ==
    /\ pc = "remove"
    /\ ~dry_run
    /\ i <= Len(to_remove)
    /\ response' = NoResponse
    /\ log' = log \o <<Line("ACTION", to_remove[i].id), Line("error", to_remove[i].id)>>
    /\ sleeps' = sleeps + 1
    /\ uninstalls' = Append(uninstalls, to_remove[i].id)
    /\ i' = i + 1
    /\ UNCHANGED <<pc, offset, agents_data, requests, received, flags, fetch_failure,
                   dry_run, to_remove>>

\* The rows are exhausted: back in main, which adds its dry-run line.
RemoveReturn ==
    /\ pc = "remove"
    /\ i > Len(to_remove)
    /\ log' = IF dry_run THEN Append(log, Line("dry_run_done", 0)) ELSE log
    /\ pc' = "done"
    /\ UNCHANGED <<offset, agents_data, requests, received, flags, fetch_failure,
                   dry_run, to_remove, i, uninstalls, sleeps, response>>

---------------------------------------------------------------------------
(* The run of main. *)

Next ==
    \/ SearchOk
    \/ SearchTransportError
    \/ SearchParseError
    \/ FetchReturn
    \/ FindDuplicates
    \/ RemoveDryRun
    \/ RemoveLiveAnswered
    \/ RemoveLiveRaised
    \/ RemoveReturn

Spec == Init /\ [][Next]_vars

---------------------------------------------------------------------------
(* fetch_cloud_agents alone. The loop has no wait in it: every pass is one    *)
(* blocking request, so a pass that can be taken is taken (weak fairness).    *)

FetchNext ==
    \/ SearchOk
    \/ SearchTransportError
    \/ SearchParseError
    \/ FetchReturn

FetchSpec == Init /\ [][FetchNext]_vars /\ WF_vars(FetchNext)

---------------------------------------------------------------------------
(* find_duplicate_agents alone, on any inventory of at most MaxInv rows whose *)
(* timestamps are already converted (the empty inventory included).           *)

\* Three keys: the first two differ in the address only, the first and the
\* third in the hostname only.
Keys == {<<"host-a", "10.0.0.1">>, <<"host-a", "10.0.0.2">>, <<"host-b", "10.0.0.1">>}
Timestamps == {NaT, 1, 2}

RowFields ==
    {[hostname |-> key[1], address |-> key[2], created |-> c, modified |-> m] :
        key \in Keys, c \in Timestamps, m \in Timestamps}

\* A DataFrame of the given rows, indexed and identified in order.
Inventory(fields) ==
    [k \in 1..Len(fields) |->
        [idx |-> k, id |-> k, hostname |-> fields[k].hostname,
         address |-> fields[k].address, created |-> fields[k].created,
         modified |-> fields[k].modified]]

SelInit ==
    /\ pc = "select"
    /\ offset = FirstOffset
    /\ \E n \in 0..MaxInv : \E fields \in [1..n -> RowFields] :
           agents_data = Inventory(fields)
    /\ requests = <<>>
    /\ received = <<>>
    /\ flags = <<>>
    /\ fetch_failure = "none"
    /\ dry_run = TRUE
    /\ to_remove = <<>>
    /\ i = 1
    /\ uninstalls = <<>>
    /\ sleeps = 0
    /\ response = NoResponse
    /\ log = <<>>

SelNext == FindDuplicates

SelSpec == SelInit /\ [][SelNext]_vars

---------------------------------------------------------------------------
(* What the claims speak of. *)

\* find_duplicate_agents has returned in this run.
SelectorRan == \E k \in 1..Len(log) : log[k].kind = "identifying"

Inv == Range(agents_data)
Candidates == Range(to_remove)

\* The duplicate group of a row: the rows sharing its (hostname, address).
Group(r) == {s \in Inv : s.hostname = r.hostname /\ s.address = r.address}

IsReal(t) == t # NaT

\* a is kept in preference to b: later modified (a missing one being no later
\* than any), then earlier created among present ones (a present one before a
\* missing one), then earlier place in the inventory.
Preferred(a, b) ==
    LET modLater == IsReal(a.modified) /\ (IsReal(b.modified) => a.modified > b.modified)
        creEarlier == IsReal(a.created) /\ (IsReal(b.created) => a.created < b.created)
    IN  \/ modLater
        \/ a.modified = b.modified /\ creEarlier
        \/ a.modified = b.modified /\ a.created = b.created /\ a.idx < b.idx

PosInOutput(r) == CHOOSE k \in 1..Len(to_remove) : to_remove[k] = r

---------------------------------------------------------------------------
\* C1: find_duplicate_agents returns exactly, for every group of rows sharing
\* (hostname, address), the group minus its retained row, the retained row being
\* the one of latest modified, then earliest created, then first in order: a
\* row is a candidate iff another row of its group is preferred to it, every
\* group of n rows gives n-1 candidates (none for n = 1), and an inventory
\* without a repeated key gives no candidate.
C1_GroupMinusRetained ==
    SelectorRan =>
        /\ Candidates \subseteq Inv
        /\ Cardinality(Candidates) = Len(to_remove)
        /\ \A r \in Inv :
            /\ r \in Candidates <=> \E s \in Group(r) : Preferred(s, r)
            /\ Cardinality(Group(r) \cap Candidates) = Cardinality(Group(r)) - 1
        /\ (\A r \in Inv : Group(r) = {r}) => to_remove = <<>>

\* A modified tie inside a group settled by created, against inventory order,
\* next to a row that is alone in its group.
C1_Witness ==
    /\ SelectorRan
    /\ \E a, b, c \in Inv :
        /\ a.idx < b.idx /\ b \in Group(a) /\ Group(c) = {c}
        /\ IsReal(a.modified) /\ a.modified = b.modified
        /\ IsReal(b.created) /\ IsReal(a.created) /\ b.created < a.created
        /\ a \in Candidates /\ b \notin Candidates /\ c \notin Candidates

---------------------------------------------------------------------------
\* C2 as stated: for every inventory, the empty one included, the output is a
\* strict subset of the input by id: every returned row is an input row, the
\* output never equals the input, and no row outside a duplicate group is
\* returned.
C2_AlwaysStrictSubset ==
    SelectorRan =>
        /\ Candidates \subseteq Inv
        /\ {r.id : r \in Candidates} # {r.id : r \in Inv}
        /\ \A r \in Candidates : Group(r) # {r}

\* C2 as amended: the output is a subset of the input by id and holds no row
\* outside a duplicate group; it is a strict subset whenever the inventory is
\* not empty, and on the empty inventory it is empty, equal to its input.
C2_SubsetStrictUnlessEmpty ==
    SelectorRan =>
        /\ Candidates \subseteq Inv
        /\ {r.id : r \in Candidates} \subseteq {r.id : r \in Inv}
        /\ agents_data # <<>> => {r.id : r \in Candidates} # {r.id : r \in Inv}
        /\ agents_data = <<>> => to_remove = <<>>
        /\ \A r \in Candidates : Group(r) # {r}

\* An inventory that is one duplicate group: all rows but one are returned.
C2_Witness ==
    /\ SelectorRan
    /\ Len(agents_data) >= 3
    /\ Len(to_remove) = Len(agents_data) - 1

---------------------------------------------------------------------------
\* C8 as stated: a missing timestamp is ordered as the earliest value in both
\* sort keys: a missing modified loses to any present modified, on a modified
\* tie a missing created wins the earliest-created tie-break over any present
\* created, and rows tied at a missing value keep their inventory order.
C8_NaTEarliestInBothKeys ==
    SelectorRan =>
        \A a, b \in Inv : (a # b /\ b \in Group(a)) =>
            /\ IsReal(a.modified) /\ ~IsReal(b.modified) => b \in Candidates
            /\ (a.modified = b.modified /\ ~IsReal(a.created) /\ IsReal(b.created))
                   => b \in Candidates
            /\ (/\ a.modified = b.modified /\ a.created = b.created
                /\ ~IsReal(a.modified) \/ ~IsReal(a.created)
                /\ a.idx < b.idx)
                   => /\ b \in Candidates
                      /\ a \in Candidates => PosInOutput(a) < PosInOutput(b)

\* C8 as amended: a missing timestamp is ordered last in both sort keys: a
\* missing modified loses to any present modified (as the earliest value would),
\* but on a modified tie a missing created loses the earliest-created tie-break
\* to any present created (as the latest value would); rows tied at a missing
\* value keep their inventory order.
C8_NaTLastInBothKeys ==
    SelectorRan =>
        \A a, b \in Inv : (a # b /\ b \in Group(a)) =>
            /\ IsReal(a.modified) /\ ~IsReal(b.modified) => b \in Candidates
            /\ (a.modified = b.modified /\ IsReal(a.created) /\ ~IsReal(b.created))
                   => b \in Candidates
            /\ (/\ a.modified = b.modified /\ a.created = b.created
                /\ ~IsReal(a.modified) \/ ~IsReal(a.created)
                /\ a.idx < b.idx)
                   => /\ b \in Candidates
                      /\ a \in Candidates => PosInOutput(a) < PosInOutput(b)

\* A modified tie between a row of missing created and a later row of present
\* created: the row of missing created is dropped, the other one retained.
C8_Witness ==
    /\ SelectorRan
    /\ \E a, b \in Inv :
        /\ b \in Group(a) /\ a.idx < b.idx
        /\ a.modified = b.modified
        /\ ~IsReal(a.created) /\ IsReal(b.created)
        /\ a \in Candidates /\ b \notin Candidates

---------------------------------------------------------------------------
(* The removal loop. *)

\* The agent ids of the log lines of one kind, in order.
AgentsLogged(kind) ==
    LET lines == SelectSeq(log, LAMBDA l : l.kind = kind)
    IN  [k \in 1..Len(lines) |-> lines[k].agent]

\* The ids of the candidates the loop has been through, in iteration order.
IdsDone == [k \in 1..(i - 1) |-> to_remove[k].id]

LoopComplete == pc = "done" /\ to_remove # <<>> => i = Len(to_remove) + 1

\* C3: in dry-run mode remove_cloud_agents issues no uninstall request and
\* never sleeps, and logs exactly one DRY-RUN line per candidate, in the
\* iteration order of the candidate set (and no line of a live removal).
C3_DryRunOnlyLogs ==
    dry_run =>
        /\ uninstalls = <<>>
        /\ sleeps = 0
        /\ AgentsLogged("DRY-RUN") = IdsDone
        /\ \A k \in 1..Len(log) : log[k].kind \notin {"ACTION", "success", "failed", "error"}
        /\ LoopComplete

\* A dry run over two candidates has ended.
C3_Witness ==
    /\ dry_run
    /\ pc = "done"
    /\ Len(to_remove) >= 2
    /\ Len(AgentsLogged("DRY-RUN")) = Len(to_remove)

\* C5: in live mode no failure on one candidate (an exception, or an answer
\* that is no success) aborts the loop: every candidate gets exactly one
\* uninstall request, in iteration order, and none gets two.
C5_LiveEachCandidateOnce ==
    ~dry_run =>
        /\ uninstalls = IdsDone
        /\ sleeps = Len(uninstalls)
        /\ Cardinality(Range(uninstalls)) = Len(uninstalls)
        /\ LoopComplete

\* A live run over two candidates has ended, the first request having raised
\* and the second having been answered with a failure.
C5_Witness ==
    /\ ~dry_run
    /\ pc = "done"
    /\ Len(to_remove) = 2
    /\ AgentsLogged("error") = <<to_remove[1].id>>
    /\ AgentsLogged("failed") = <<to_remove[2].id>>
    /\ uninstalls = <<to_remove[1].id, to_remove[2].id>>

\* C6: a live removal is logged as a success iff the answer's responseCode is
\* "SUCCESS" and its count is not "0"; any other pair of the two fields,
\* "SUCCESS" with "0" in particular, is logged as a failure.
C6_SuccessIffCodeAndCount ==
    response.read =>
        LET outcome == log[Len(log)]
        IN  /\ outcome.agent = to_remove[i - 1].id
            /\ outcome.kind \in {"success", "failed"}
            /\ outcome.kind = "success" <=>
                   (response.code = "SUCCESS" /\ response.count # "0")
            /\ (response.code = "SUCCESS" /\ response.count = "0") =>
                   outcome.kind = "failed"

\* An answer of "SUCCESS" with count "0" was read and logged as a failure.
C6_Witness ==
    /\ response.read
    /\ response.code = "SUCCESS"
    /\ response.count = "0"
    /\ log[Len(log)].kind = "failed"

---------------------------------------------------------------------------
(* The fetch and what follows it. *)

\* The rows of data are the given entries in order, names lowercased,
\* timestamps as on the wire (converted = FALSE) or as converted.
RowsAre(data, entries, converted) ==
    /\ Len(data) = Len(entries)
    /\ \A k \in 1..Len(entries) :
        /\ data[k].id = k
        /\ data[k].hostname = Lower(entries[k].name)
        /\ data[k].address = entries[k].address
        /\ data[k].created = IF converted THEN ToDatetime(entries[k].created)
                             ELSE entries[k].created
        /\ data[k].modified = IF converted THEN ToDatetime(entries[k].modified)
                              ELSE entries[k].modified

\* fetch_cloud_agents has returned its DataFrame, timestamps converted, to main.
Returned == pc \notin {"fetch", "convert"} /\ fetch_failure # "parse"

Logged(kind) == \E k \in 1..Len(log) : log[k].kind = kind

\* What C4 says of a search request that fails with a transport error, short
\* of what the run does next: no further request, no exception out of
\* fetch_cloud_agents, and the records of the pages read before, in order;
\* what is selected and removed is selected and removed from these.
TransportFailureContained ==
    /\ pc # "fetch"
    /\ Len(requests) = Len(flags) + 1
    /\ ~Logged("unexpected_error")
    /\ RowsAre(agents_data, received, Returned)
    /\ SelectorRan => to_remove = find_duplicate_agents(agents_data)
    /\ Range(uninstalls) \subseteq {r.id : r \in Candidates}

\* C4 as stated: if the search request for page k fails with a transport
\* error, no further request is issued, no exception reaches the caller, the
\* records of pages 1..k-1 are returned in order, and the Selector and the
\* Remover then run on that partial inventory without error.
C4_PartialInventoryThenSelectorRuns ==
    fetch_failure = "transport" =>
        /\ TransportFailureContained
        /\ pc = "done" => SelectorRan

\* C4 as amended: as stated, except that the Selector (and, when it finds
\* candidates, the Remover) runs only if the partial inventory is not empty;
\* when it is empty (k = 1) main logs that no agents were found and ends.
C4_PartialInventoryThenSelectorUnlessEmpty ==
    fetch_failure = "transport" =>
        /\ TransportFailureContained
        /\ (pc = "done" /\ agents_data # <<>>) => SelectorRan /\ LoopComplete
        /\ (pc = "done" /\ agents_data = <<>>) => ~SelectorRan /\ Logged("no_agents")

\* The second request failed, and the duplicates of the first page were
\* uninstalled.
C4_Witness ==
    /\ fetch_failure = "transport"
    /\ Len(requests) = 2
    /\ pc = "done"
    /\ to_remove # <<>>
    /\ Len(uninstalls) = Len(to_remove)

\* C7: whatever failure occurs while requesting or reading one page of the
\* search results (a transport error, or a document that cannot be parsed), the
\* run still goes on to select and remove on the records of the earlier pages.
C7_AnyPageFailureRunGoesOn ==
    (pc = "done" /\ fetch_failure # "none" /\ received # <<>>) => SelectorRan

\* C10: every uninstall request is issued after the fetch has ended and targets
\* the id of a candidate computed from this run's inventory; so the retained
\* record of every (hostname, address) of the inventory never gets an uninstall
\* request, and a record of every key is left.
C10_OnlyCandidatesAfterFetch ==
    /\ uninstalls # <<>> => pc \in {"remove", "done"} /\ SelectorRan
    /\ Range(uninstalls) \subseteq {r.id : r \in Candidates}
    /\ SelectorRan =>
        /\ RowsAre(agents_data, received, TRUE)
        /\ Candidates \subseteq Inv
        /\ \A r \in Inv :
            /\ (\A s \in Group(r) \ {r} : Preferred(r, s)) => r.id \notin Range(uninstalls)
            /\ \E s \in Group(r) : s.id \notin Range(uninstalls)

\* A live run that uninstalled two records of one group of three has ended.
C10_Witness ==
    /\ pc = "done"
    /\ ~dry_run
    /\ Len(uninstalls) = 2
    /\ \E r \in Inv : Cardinality(Group(r)) = 3

---------------------------------------------------------------------------
\* C9: the k-th search request uses offset 1 + 1000*(k-1); a request follows
\* another only when the page before it read hasMoreRecords "true"; the loop
\* stops at the first page whose flag is not "true"; the rows held are the
\* entries of the pages received, in request order.
C9_PagingSafe ==
    /\ \A k \in 1..Len(requests) : requests[k] = 1 + 1000 * (k - 1)
    /\ \A k \in 2..Len(requests) : k - 1 <= Len(flags) /\ flags[k - 1] = "true"
    /\ \A k \in 1..Len(flags) :
           flags[k] # "true" => k = Len(flags) /\ Len(requests) = k /\ pc # "fetch"
    /\ RowsAre(agents_data, received, Returned)

\* C9, with its end: the above always holds, and as the remote comes to answer
\* with a flag that is not "true" or with a failure, the fetch loop is left.
C9_PagingAndTermination == []C9_PagingSafe /\ <>(pc # "fetch")

\* Two pages were requested, at offsets 1 and 1001, and the inventory returned.
C9_Witness ==
    /\ requests = <<1, 1001>>
    /\ flags = <<"true", "false">>
    /\ pc = "select"
    /\ Len(agents_data) = 3

====
